---------------------------- MODULE Spec2Model ----------------------------
(***************************************************************************)
(* CRC Checker (crc.c): command-line parsing, the benchmark passes and the *)
(* single-pass scan of main(), the CRC-16 / CRC-64 table engines, the      *)
(* SSE4.2 CRC-32 path and the byte-wise xxHash64 / xxHash128 variant.      *)
(*                                                                         *)
(* Machine words.  TLC's integers are 32-bit signed, so a uint32_t or a    *)
(* uint64_t is the tuple of its bytes, least significant byte first (4 or  *)
(* 8 bytes); all arithmetic on them is modulo 2^32 resp. 2^64.  A uint16_t *)
(* is a plain number below 65536.                                          *)
(***************************************************************************)
EXTENDS Integers, Sequences, FiniteSets, TLC

(***************************************************************************)
(* Bounds of the model.                                                    *)
(***************************************************************************)
\* longest command line (arguments after argv[0])
MaxArgs == 3
\* longest file whose every content over ByteSamples is enumerated
MaxLen == 2

\* byte values the enumerated files are made of
\* length of the file on which the progress interval exceeds one byte
LongLen == 200

ByteSamples == {65, 255}

\* longer files: they take crc32_simd through its 8-byte loop, once and
\* twice, with and without a tail
LongSamples ==
    { <<65, 66, 67, 68, 69, 70, 71, 72>>,
      <<65, 66, 67, 68, 69, 70, 71, 72, 73>>,
      <<0, 255, 1, 254, 2, 253, 3, 252, 4, 251, 5, 250, 6, 249, 7, 248, 128>> }

Buffers == UNION { [1..n -> ByteSamples] : n \in 0..MaxLen } \cup LongSamples

(***************************************************************************)
(* Bit operations on naturals and on words.                                *)
(***************************************************************************)
\* bit k of the number a
Bit(a, p) == (a \div p) % 2

\* a ^ b of two bytes
XorByte(a, b) ==
      ((Bit(a, 1) + Bit(b, 1)) % 2)
    + ((Bit(a, 2) + Bit(b, 2)) % 2) * 2
    + ((Bit(a, 4) + Bit(b, 4)) % 2) * 4
    + ((Bit(a, 8) + Bit(b, 8)) % 2) * 8
    + ((Bit(a, 16) + Bit(b, 16)) % 2) * 16
    + ((Bit(a, 32) + Bit(b, 32)) % 2) * 32
    + ((Bit(a, 64) + Bit(b, 64)) % 2) * 64
    + ((Bit(a, 128) + Bit(b, 128)) % 2) * 128

\* a | b of two bytes
OrByte(a, b) == a + b - (a + b - XorByte(a, b)) \div 2

\* a ^ b of two numbers below 2^24
BitXor(a, b) ==
      XorByte(a % 256, b % 256)
    + XorByte((a \div 256) % 256, (b \div 256) % 256) * 256
    + XorByte((a \div 65536) % 256, (b \div 65536) % 256) * 65536

\* the j-th byte of word x, 0 outside the word
Limb(x, j) == IF j >= 1 /\ j <= Len(x) THEN x[j] ELSE 0

\* the number n as a word of w bytes (n modulo 2^(8w))
RECURSIVE Word(_, _)
Word(n, w) == IF w = 0 THEN <<>> ELSE <<n % 256>> \o Word(n \div 256, w - 1)

\* the 4-byte and the 8-byte word whose k-th byte is F(k)
Tab4(F(_)) == <<F(1), F(2), F(3), F(4)>>
Tab8(F(_)) == <<F(1), F(2), F(3), F(4), F(5), F(6), F(7), F(8)>>

\* x ^ y
XorW(x, y) ==
    LET F(k) == XorByte(x[k], y[k])
    IN  IF Len(x) = 4 THEN Tab4(F) ELSE Tab8(F)

\* x | y
OrW(x, y) ==
    LET F(k) == OrByte(x[k], y[k])
    IN  IF Len(x) = 4 THEN Tab4(F) ELSE Tab8(F)

\* x << n, truncated to the width of x: byte k takes the low bits of byte
\* k - n/8 and the high bits of the byte below it
ShlW(x, n) ==
    LET F(k) == ((Limb(x, k - (n \div 8)) * 2^(n % 8)) % 256)
                + (Limb(x, k - (n \div 8) - 1) \div 2^(8 - (n % 8)))
    IN  IF Len(x) = 4 THEN Tab4(F) ELSE Tab8(F)

\* x >> n: byte k takes the high bits of byte k + n/8 and the low bits of
\* the byte above it
ShrW(x, n) ==
    LET F(k) == (Limb(x, k + (n \div 8)) \div 2^(n % 8))
                + ((Limb(x, k + (n \div 8) + 1) % 2^(n % 8)) * 2^(8 - (n % 8)))
    IN  IF Len(x) = 4 THEN Tab4(F) ELSE Tab8(F)

\* a 32-bit word widened to 64 bits, and the low 32 bits of a 64-bit word
Widen(x) == <<x[1], x[2], x[3], x[4], 0, 0, 0, 0>>
Low32(x) == <<x[1], x[2], x[3], x[4]>>

\* x[1]*y[k] + x[2]*y[k-1] + ... + x[k]*y[1]: the products of weight 256^(k-1)
RECURSIVE ColSum(_, _, _, _)
ColSum(x, y, k, j) ==
    IF j > k THEN 0 ELSE x[j] * y[k + 1 - j] + ColSum(x, y, k, j + 1)

\* x * y of two 64-bit words, truncated to 64 bits: schoolbook columns, each
\* passing its carry on; the carry out of the top byte is dropped
MulW(x, y) ==
    LET s1 == ColSum(x, y, 1, 1)
        s2 == (s1 \div 256) + ColSum(x, y, 2, 1)
        s3 == (s2 \div 256) + ColSum(x, y, 3, 1)
        s4 == (s3 \div 256) + ColSum(x, y, 4, 1)
        s5 == (s4 \div 256) + ColSum(x, y, 5, 1)
        s6 == (s5 \div 256) + ColSum(x, y, 6, 1)
        s7 == (s6 \div 256) + ColSum(x, y, 7, 1)
        s8 == (s7 \div 256) + ColSum(x, y, 8, 1)
    IN  <<s1 % 256, s2 % 256, s3 % 256, s4 % 256,
          s5 % 256, s6 % 256, s7 % 256, s8 % 256>>

\* bit 0 of x, and the top bit of x
LowBit(x) == x[1] % 2
TopBit(x) == x[Len(x)] \div 128

(***************************************************************************)
(* CRC polynomials and tables (crc.c 153-195).                             *)
(***************************************************************************)
CRC16_POLY == 4129
\* 0x42F0E1EBA9EA3693
CRC64_POLY == <<147, 54, 234, 169, 235, 225, 240, 66>>

\* fault: the CRC-16/ARC polynomial 0x8005 in place of CRC16_POLY
Crc16ShiftStepAnsi(crc) ==
    IF crc \div 32768 = 1 THEN BitXor((crc * 2) % 65536, 32773) ELSE (crc * 2) % 65536

\* one round of the j-loop of init_crc16
Crc16ShiftStep(crc) ==
    IF (crc \div 32768) % 2 = 1
    THEN BitXor(crc * 2, CRC16_POLY) % 65536
    ELSE (crc * 2) % 65536

\* one round of the j-loop of init_crc64
Crc64ShiftStep(crc) ==
    IF TopBit(crc) = 1 THEN XorW(ShlW(crc, 1), CRC64_POLY) ELSE ShlW(crc, 1)

\* for (j = 0; j < 8; j++) of init_crc16, from crc = i << 8
Crc16Rounds(crc) ==
    Crc16ShiftStep(Crc16ShiftStep(Crc16ShiftStep(Crc16ShiftStep(
    Crc16ShiftStep(Crc16ShiftStep(Crc16ShiftStep(Crc16ShiftStep(crc))))))))

\* for (j = 0; j < 8; j++) of init_crc64, from crc = (uint64_t)i << 56
Crc64Rounds(crc) ==
    Crc64ShiftStep(Crc64ShiftStep(Crc64ShiftStep(Crc64ShiftStep(
    Crc64ShiftStep(Crc64ShiftStep(Crc64ShiftStep(Crc64ShiftStep(crc))))))))

\* the table init_crc64 leaves in crc64_table
init_crc64 == [n \in 0..255 |-> Crc64Rounds(<<0, 0, 0, 0, 0, 0, 0, n>>)]

\* the table init_crc16 leaves in crc16_table
init_crc16 == [n \in 0..255 |-> Crc16Rounds((n * 256) % 65536)]

\* the static tables before initialisation
ZeroTable16 == [n \in 0..255 |-> 0]
ZeroTable64 == [n \in 0..255 |-> <<0, 0, 0, 0, 0, 0, 0, 0>>]

\* fault: the result is kept as the int the expression yields, not stored
\* in a uint16_t
Crc16UpdateNoTruncation(table, crc, b) ==
    BitXor(table[XorByte(crc \div 256, b)], crc * 256)

\* crc16 = crc16_table[(crc16 >> 8) ^ b] ^ (crc16 << 8), stored in a uint16_t
Crc16Update(table, crc, b) ==
    BitXor(table[XorByte(crc \div 256, b)], crc * 256) % 65536

\* crc64 = (crc64 << 8) ^ crc64_table[(crc64 >> 56) ^ b]
Crc64Update(table, crc, b) ==
    XorW(ShlW(crc, 8), table[XorByte(ShrW(crc, 56)[1], b)])

(***************************************************************************)
(* The SSE4.2 CRC32 instruction, as the Intel SDM defines it: the          *)
(* remainder modulo the polynomial 0x11EDC6F41 on bit-reflected operands,  *)
(* i.e. a right-shifting register with the reflected polynomial            *)
(* 0x82F63B78.                                                             *)
(***************************************************************************)
CRC32C_REFLECTED == <<120, 59, 246, 130>>

\* n right-shift rounds of a register x at least 4 bytes wide
RECURSIVE Crc32cRounds(_, _)
Crc32cRounds(x, n) ==
    IF n = 0 THEN x
    ELSE IF LowBit(x) = 1
    THEN Crc32cRounds(XorW(ShrW(x, 1), IF Len(x) = 4 THEN CRC32C_REFLECTED ELSE Widen(CRC32C_REFLECTED)), n - 1)
    ELSE Crc32cRounds(ShrW(x, 1), n - 1)

\* _mm_crc32_u8(crc, b)
mm_crc32_u8(crc, b) == Crc32cRounds(XorW(crc, Word(b, 4)), 8)

\* _mm_crc32_u64(crc, v) stored into a uint32_t; v is a 64-bit word
mm_crc32_u64(crc, v) ==
    Low32(Crc32cRounds(XorW(v, Widen(crc)), 64))

\* *(const uint64_t *)buf on little-endian x86, buf at byte offset off of
\* the mapping: the 8 bytes from there on, lowest address first
LoadU64(buf, off) == SubSeq(buf, off + 1, off + 8)

\* the first loop of crc32_simd: while (len >= 8), the word at offset off
\* (the test on Len(c) makes TLC compute c before it goes on)
RECURSIVE Crc32Words(_, _, _)
Crc32Words(crc, buf, off) ==
    IF Len(buf) - off < 8 THEN crc
    ELSE LET c == mm_crc32_u64(crc, LoadU64(buf, off))
         IN  IF Len(c) = 4 THEN Crc32Words(c, buf, off + 8) ELSE c

\* the second loop of crc32_simd: while (len--), the byte at offset off
RECURSIVE Crc32Bytes(_, _, _)
Crc32Bytes(crc, buf, off) ==
    IF off >= Len(buf) THEN crc
    ELSE LET c == mm_crc32_u8(crc, buf[off + 1])
         IN  IF Len(c) = 4 THEN Crc32Bytes(c, buf, off + 1) ELSE c

crc32_simd(crc, buf) ==
    Crc32Bytes(Crc32Words(crc, buf, 0), buf, 8 * (Len(buf) \div 8))

ALL_ONES32 == <<255, 255, 255, 255>>

(***************************************************************************)
(* xxHash constants and mixing (crc.c 405-414, 583, 588-593, 606).         *)
(***************************************************************************)
\* 11400714785074694791 = 0x9E3779B185EBCA87
XX_P1 == <<135, 202, 235, 133, 177, 121, 55, 158>>
\* 14029467366897019727 = 0xC2B2AE3D27D4EB4F
XX_P2 == <<79, 235, 212, 39, 61, 174, 178, 194>>
\* 1609587929392839161 = 0x165667B19E3779F9
XX_P3 == <<249, 121, 55, 158, 177, 103, 86, 22>>
\* 9650029242287828579 = 0x85EBCA77C2B2AE63
XX_P4 == <<99, 174, 178, 194, 119, 202, 235, 133>>
\* 2870177450012600261 = 0x27D4EB2F165667C5
XX_P5 == <<197, 103, 86, 22, 47, 235, 212, 39>>

rotl64(x, r) == OrW(ShlW(x, r), ShrW(x, 64 - r))

\* fault: the byte is mixed in without the multiplication by P5
Xxh64UpdateNoByteMul(acc, b) == MulW(rotl64(XorW(acc, Word(b, 8)), 11), XX_P1)

\* xxh64 = rotl64(xxh64 ^ (b * XX_P5), 11) * XX_P1
Xxh64Update(acc, b) == MulW(rotl64(XorW(acc, MulW(Word(b, 8), XX_P5)), 11), XX_P1)

\* xxh64 ^= filesize; xxh64 ^= xxh64 >> 33; xxh64 *= XX_P2; ...
Xxh64Finalize(acc, len) ==
    LET a0 == XorW(acc, Word(len, 8))
        a1 == MulW(XorW(a0, ShrW(a0, 33)), XX_P2)
        a2 == MulW(XorW(a1, ShrW(a1, 29)), XX_P3)
    IN  XorW(a2, ShrW(a2, 32))

\* fault: the rotation of canonical xxHash64's merge round, 27 bits
Xxh128HiRot27(x) == XorW(rotl64(MulW(x, XX_P1), 27), XX_P4)

\* rotl64(xxh64 * XX_P1, 31) ^ XX_P4
Xxh128Hi(x) == XorW(rotl64(MulW(x, XX_P1), 31), XX_P4)

(***************************************************************************)
(* The program state: main() of crc.c 446-612.                             *)
(***************************************************************************)
VARIABLES
    args,         \* argv[i .. argc-1]: the arguments the parsing loop has not read yet
    has_sse42,    \* whether the CPU implements the SSE4.2 CRC32 instruction
    fast_mode, benchmark,
    do_crc16, do_crc32, do_crc64, do_xxh64, do_xxh128,
    file,         \* whether file is non-NULL
    seen_all,     \* history: the -a / --all branch of the parsing loop was taken
    pc,           \* where main() stands
    filesize,     \* st.st_size once fstat has run, -1 before
    data,         \* the mapped bytes of the file, <<>> while nothing is mapped
    reads,        \* history: the index of every data[] access so far, in order
    crc16_table, crc64_table,
    i,            \* index of the running scan loop
    crc16, crc32, crc64, xxh64,
    progress,     \* the `current` argument of every print_progress call so far
    out,          \* the digest lines printed so far, <<label, value>> each
    err,          \* the message written to stderr, "" if none
    status        \* "running", or how the process ended

flags == <<fast_mode, benchmark, do_crc16, do_crc32, do_crc64, do_xxh64, do_xxh128,
           file, seen_all>>
tables == <<crc16_table, crc64_table>>
regs == <<crc16, crc32, crc64, xxh64>>
input == <<filesize, data>>
vars == <<args, has_sse42, flags, pc, input, reads, tables, i, regs, progress, out, err,
          status>>

\* One token per branch of the parsing loop (each option has two spellings
\* that take the same branch); "FILE" is any other argument.
Options == {"-d", "-s", "-b", "--crc16", "--crc64", "--x64", "--x128", "-a", "FILE"}

ArgLists == UNION { [1..n -> Options] : n \in 0..MaxArgs }

Init ==
    /\ args \in ArgLists
    /\ has_sse42 \in BOOLEAN
    /\ fast_mode = 0 /\ benchmark = 0
    /\ do_crc16 = 0 /\ do_crc32 = 1 /\ do_crc64 = 0
    /\ do_xxh64 = 0 /\ do_xxh128 = 0
    /\ file = FALSE
    /\ seen_all = FALSE
    /\ pc = "parse"
    /\ filesize = -1
    /\ data = <<>>
    /\ reads = <<>>
    /\ crc16_table = ZeroTable16
    /\ crc64_table = ZeroTable64
    /\ i = 0
    /\ crc16 = 0 /\ crc32 = Word(0, 4) /\ crc64 = Word(0, 8) /\ xxh64 = Word(0, 8)
    /\ progress = <<>>
    /\ out = <<>>
    /\ err = ""
    /\ status = "running"

\* return EXIT_FAILURE / EXIT_SUCCESS, or the death of the process
Exit(how, msg) ==
    /\ pc' = "exit"
    /\ status' = how
    /\ err' = msg

(***************************************************************************)
(* Argument parsing, one iteration of the loop of lines 453-466.           *)
(***************************************************************************)
ParseArg ==
    /\ pc = "parse"
    /\ args # <<>>
    /\ LET a == Head(args) IN
       IF a = "-d"
       THEN \* show_debug(); return EXIT_SUCCESS;
            /\ Exit("success", "")
            /\ UNCHANGED <<args, flags>>
       ELSE /\ args' = Tail(args)
            /\ fast_mode' = IF a \in {"-s", "-b"} THEN 1 ELSE fast_mode
            /\ benchmark' = IF a = "-b" THEN 1 ELSE benchmark
            /\ do_crc16' = IF a \in {"--crc16", "-a"} THEN 1 ELSE do_crc16
            /\ do_crc64' = IF a \in {"--crc64", "-a"} THEN 1 ELSE do_crc64
            /\ do_xxh64' = IF a \in {"--x64", "-a"} THEN 1 ELSE do_xxh64
            /\ do_xxh128' = IF a \in {"--x128", "-a"} THEN 1 ELSE do_xxh128
            /\ do_crc32' = IF a = "-a" THEN 1
                           ELSE IF a \in {"--crc16", "--crc64", "--x64", "--x128"} THEN 0
                           ELSE do_crc32
            /\ file' = IF a = "FILE" THEN TRUE ELSE file
            /\ seen_all' = IF a = "-a" THEN TRUE ELSE seen_all
            /\ UNCHANGED <<pc, status, err>>
    /\ UNCHANGED <<has_sse42, input, reads, tables, i, regs, progress, out>>

\* the loop is over: if (!file) usage, return EXIT_FAILURE (468-481)
ParseDone ==
    /\ pc = "parse"
    /\ args = <<>>
    /\ IF file
       THEN pc' = "open" /\ UNCHANGED <<status, err>>
       ELSE Exit("failure", "usage")
    /\ UNCHANGED <<args, has_sse42, flags, input, reads, tables, i, regs, progress, out>>

(***************************************************************************)
(* realpath, open, fstat, the empty-file test and mmap (483-496).  The     *)
(* file system decides which call fails and what the file holds.           *)
(***************************************************************************)
OpenFileFrom(bufs) ==
    /\ pc = "open"
    /\ \E res \in {"realpath", "open", "mmap", "ok"}, d \in bufs :
          IF res \in {"realpath", "open"}
          THEN Exit("failure", res) /\ UNCHANGED input
          ELSE /\ filesize' = Len(d)
               /\ IF Len(d) = 0
                  THEN Exit("failure", "Empty file") /\ UNCHANGED data
                  ELSE IF res = "mmap"
                  THEN Exit("failure", res) /\ UNCHANGED data
                  ELSE data' = d /\ pc' = "init" /\ UNCHANGED <<status, err>>
    /\ UNCHANGED <<args, has_sse42, flags, reads, tables, i, regs, progress, out>>

OpenFile == OpenFileFrom(Buffers)

(***************************************************************************)
(* init_crc64(); init_crc16(); then the entry of the benchmark block       *)
(* (512-521) or of the single-pass block (569-576).                        *)
(***************************************************************************)
InitTables ==
    /\ pc = "init"
    /\ crc64_table' = init_crc64
    /\ crc16_table' = init_crc16
    /\ i' = 0
    /\ IF benchmark = 1
       THEN /\ pc' = "bench_crc16"
            /\ crc16' = 65535
            /\ UNCHANGED <<crc32, crc64, xxh64>>
       ELSE /\ pc' = "scan"
            /\ crc16' = 65535
            /\ crc32' = ALL_ONES32
            /\ crc64' = Word(0, 8)
            /\ xxh64' = XX_P5
    /\ UNCHANGED <<args, has_sse42, flags, input, reads, progress, out, err, status>>

(***************************************************************************)
(* Benchmark mode (512-566).                                               *)
(***************************************************************************)
\* one printed digest line
Line(label, value) == <<label, value>>

\* for (i ...) crc16 = crc16_table[(crc16 >> 8) ^ data[i]] ^ (crc16 << 8);
BenchCrc16Step ==
    /\ pc = "bench_crc16"
    /\ i < filesize
    /\ crc16' = Crc16Update(crc16_table, crc16, data[i + 1])
    /\ i' = i + 1
    /\ reads' = Append(reads, i)
    /\ UNCHANGED <<args, has_sse42, flags, pc, input, tables, crc32, crc64, xxh64,
                   progress, out, err, status>>

\* the CRC-16 line is printed (525)
BenchCrc16Done ==
    /\ pc = "bench_crc16"
    /\ i = filesize
    /\ out' = Append(out, Line("CRC-16", Word(crc16, 2)))
    /\ pc' = "bench_crc32"
    /\ UNCHANGED <<args, has_sse42, flags, input, reads, tables, i, regs, progress, err, status>>

\* the bytes crc32_simd reads from a buffer of len bytes: every index once,
\* ascending (eight per word, then one by one)
Crc32Reads(len) == [k \in 1..len |-> k - 1]

\* crc32 = crc32_simd(0xFFFFFFFF, data, filesize) ^ 0xFFFFFFFF, printed (528-533),
\* and the entry of the CRC-64 loop (536-537).  Without SSE4.2 the first
\* CRC32 instruction is an invalid opcode: the process dies of SIGILL.
BenchCrc32 ==
    /\ pc = "bench_crc32"
    /\ IF has_sse42
       THEN /\ crc32' = XorW(crc32_simd(ALL_ONES32, data), ALL_ONES32)
            /\ out' = Append(out, Line("CRC-32", crc32'))
            /\ reads' = reads \o Crc32Reads(filesize)
            /\ crc64' = Word(0, 8)
            /\ i' = 0
            /\ pc' = "bench_crc64"
            /\ UNCHANGED <<status, err>>
       ELSE /\ Exit("SIGILL", "")
            /\ UNCHANGED <<crc32, crc64, i, out, reads>>
    /\ UNCHANGED <<args, has_sse42, flags, input, tables, crc16, xxh64, progress>>

\* for (i ...) crc64 = (crc64 << 8) ^ crc64_table[(crc64 >> 56) ^ data[i]];
BenchCrc64Step ==
    /\ pc = "bench_crc64"
    /\ i < filesize
    /\ crc64' = Crc64Update(crc64_table, crc64, data[i + 1])
    /\ i' = i + 1
    /\ reads' = Append(reads, i)
    /\ UNCHANGED <<args, has_sse42, flags, pc, input, tables, crc16, crc32, xxh64,
                   progress, out, err, status>>

\* the CRC-64 line is printed (541); entry of the xxHash64 loop (544-545)
BenchCrc64Done ==
    /\ pc = "bench_crc64"
    /\ i = filesize
    /\ out' = Append(out, Line("CRC-64", crc64))
    /\ xxh64' = XX_P5
    /\ i' = 0
    /\ pc' = "bench_xxh64"
    /\ UNCHANGED <<args, has_sse42, flags, input, reads, tables, crc16, crc32, crc64,
                   progress, err, status>>

\* for (i ...) xxh64 = rotl64(xxh64 ^ (data[i] * XX_P5), 11) * XX_P1;
BenchXxh64Step ==
    /\ pc = "bench_xxh64"
    /\ i < filesize
    /\ xxh64' = Xxh64Update(xxh64, data[i + 1])
    /\ i' = i + 1
    /\ reads' = Append(reads, i)
    /\ UNCHANGED <<args, has_sse42, flags, pc, input, tables, crc16, crc32, crc64,
                   progress, out, err, status>>

\* the finalization of xxh64 (548-551); the xxH64 line is printed (553)
BenchXxh64Done ==
    /\ pc = "bench_xxh64"
    /\ i = filesize
    /\ xxh64' = Xxh64Finalize(xxh64, filesize)
    /\ out' = Append(out, Line("xxH64", xxh64'))
    /\ pc' = "bench_xxh128"
    /\ UNCHANGED <<args, has_sse42, flags, input, reads, tables, i, crc16, crc32, crc64,
                   progress, err, status>>

\* fault: the xxHash128 block scans the buffer once more
Xxh128ReadsOwnScan(len) == [k \in 1..len |-> k - 1]

\* the bytes the xxHash128 block reads from a buffer of len bytes: none, it
\* has no loop over data
Xxh128Reads(len) == <<>>

\* hi = rotl64(xxh64 * XX_P1, 31) ^ XX_P4; lo = xxh64; the xxH128 line is
\* printed hi first (556-560); munmap; return EXIT_SUCCESS
BenchXxh128 ==
    /\ pc = "bench_xxh128"
    /\ out' = Append(out, Line("xxH128", xxh64 \o Xxh128Hi(xxh64)))
    /\ reads' = reads \o Xxh128Reads(filesize)
    /\ Exit("success", "")
    /\ UNCHANGED <<args, has_sse42, flags, input, tables, i, regs, progress>>

(***************************************************************************)
(* Single-pass mode (569-612).                                             *)
(***************************************************************************)
\* progress_interval = filesize / 100; if (progress_interval == 0) ... = 1;
ProgressInterval(total) == IF total \div 100 = 0 THEN 1 ELSE total \div 100

\* fault: the test i == filesize - 1 is missing
NotifiesAtIntervalOnly(k, total) == (k % ProgressInterval(total)) = 0

\* whether the iteration at index k calls print_progress (584)
Notifies(k, total) ==
    (k % ProgressInterval(total)) = 0 \/ k = total - 1

\* fault: the accumulators are updated whether or not their algorithm is
\* selected
ScanByteUnguarded ==
    /\ pc = "scan"
    /\ i < filesize
    /\ reads' = Append(reads, i)
    /\ LET b == data[i + 1] IN
       /\ crc16' = Crc16Update(crc16_table, crc16, b)
       /\ IF do_crc32 = 1 /\ ~has_sse42
          THEN /\ Exit("SIGILL", "")
               /\ UNCHANGED <<crc32, crc64, xxh64, i, progress>>
          ELSE /\ crc32' = IF has_sse42 THEN mm_crc32_u8(crc32, b) ELSE crc32
               /\ crc64' = Crc64Update(crc64_table, crc64, b)
               /\ xxh64' = Xxh64Update(xxh64, b)
               /\ progress' = IF Notifies(i, filesize)
                               THEN Append(progress, i + 1) ELSE progress
               /\ i' = i + 1
               /\ UNCHANGED <<pc, status, err>>
    /\ UNCHANGED <<args, has_sse42, flags, input, tables, out>>

\* one iteration of the loop of lines 578-585.  Without SSE4.2 the
\* _mm_crc32_u8 of line 581 is an invalid opcode: the process dies of
\* SIGILL after line 580.
ScanByte ==
    /\ pc = "scan"
    /\ i < filesize
    /\ reads' = Append(reads, i)
    /\ LET b == data[i + 1] IN
       /\ crc16' = IF do_crc16 = 1 THEN Crc16Update(crc16_table, crc16, b) ELSE crc16
       /\ IF do_crc32 = 1 /\ ~has_sse42
          THEN /\ Exit("SIGILL", "")
               /\ UNCHANGED <<crc32, crc64, xxh64, i, progress>>
          ELSE /\ crc32' = IF do_crc32 = 1 THEN mm_crc32_u8(crc32, b) ELSE crc32
               /\ crc64' = IF do_crc64 = 1 THEN Crc64Update(crc64_table, crc64, b) ELSE crc64
               /\ xxh64' = IF do_xxh64 = 1 THEN Xxh64Update(xxh64, b) ELSE xxh64
               /\ progress' = IF Notifies(i, filesize)
                               THEN Append(progress, i + 1) ELSE progress
               /\ i' = i + 1
               /\ UNCHANGED <<pc, status, err>>
    /\ UNCHANGED <<args, has_sse42, flags, input, tables, out>>

\* crc32 ^= 0xFFFFFFFF; if (do_xxh64 || do_xxh128) the finalization (587-593)
Finalize ==
    /\ pc = "scan"
    /\ i = filesize
    /\ crc32' = XorW(crc32, ALL_ONES32)
    /\ xxh64' = IF do_xxh64 = 1 \/ do_xxh128 = 1
                THEN Xxh64Finalize(xxh64, filesize) ELSE xxh64
    /\ pc' = "output"
    /\ UNCHANGED <<args, has_sse42, flags, input, reads, tables, i, crc16, crc64,
                   progress, out, err, status>>

\* the digest lines of the selected algorithms, in the order of lines 601-606
OutputLines ==
    (IF do_crc16 = 1 THEN <<Line("CRC-16", Word(crc16, 2))>> ELSE <<>>)
    \o (IF do_crc32 = 1 THEN <<Line("CRC-32", crc32)>> ELSE <<>>)
    \o (IF do_crc64 = 1 THEN <<Line("CRC-64", crc64)>> ELSE <<>>)
    \o (IF do_xxh64 = 1 THEN <<Line("xxH64", xxh64)>> ELSE <<>>)
    \o (IF do_xxh128 = 1 THEN <<Line("xxH128", xxh64 \o Xxh128Hi(xxh64))>> ELSE <<>>)

\* the lines are printed; munmap; return EXIT_SUCCESS (601-611)
Output ==
    /\ pc = "output"
    /\ out' = out \o OutputLines
    /\ Exit("success", "")
    /\ UNCHANGED <<args, has_sse42, flags, input, reads, tables, i, regs, progress>>

Next ==
    \/ ParseArg
    \/ ParseDone
    \/ OpenFile
    \/ InitTables
    \/ BenchCrc16Step
    \/ BenchCrc16Done
    \/ BenchCrc32
    \/ BenchCrc64Step
    \/ BenchCrc64Done
    \/ BenchXxh64Step
    \/ BenchXxh64Done
    \/ BenchXxh128
    \/ ScanByte
    \/ Finalize
    \/ Output

Spec == Init /\ [][Next]_vars

(***************************************************************************)
(* What a finished run printed.                                            *)
(***************************************************************************)
DoneSingle == pc = "exit" /\ status = "success" /\ filesize > 0 /\ benchmark = 0
DoneBench == pc = "exit" /\ status = "success" /\ filesize > 0 /\ benchmark = 1

Labels == [k \in 1..Len(out) |-> out[k][1]]
HasLine(label) == \E k \in 1..Len(out) : out[k][1] = label
ValueOf(label) == out[CHOOSE k \in 1..Len(out) : out[k][1] = label][2]

\* the two halves of a printed xxH128 value
Lo64(v) == SubSeq(v, 1, 8)
Hi64(v) == SubSeq(v, 9, 16)

AllFive == <<"CRC-16", "CRC-32", "CRC-64", "xxH64", "xxH128">>

(***************************************************************************)
(* Reference xxHash64 variant, as the specification states it: unsigned    *)
(* 64-bit arithmetic; acc0 = P5; per byte                                  *)
(* acc = rotate_left(acc XOR (b * P5), 11) * P1; at the end acc ^= S;      *)
(* acc ^= acc>>33; acc *= P2; acc ^= acc>>29; acc *= P3; acc ^= acc>>32.   *)
(***************************************************************************)
RECURSIVE RefXxhLoop(_, _, _)
RefXxhLoop(acc, d, k) ==
    IF k > Len(d) THEN acc
    ELSE LET nxt == MulW(rotl64(XorW(acc, MulW(<<d[k], 0, 0, 0, 0, 0, 0, 0>>, XX_P5)), 11),
                         XX_P1)
         IN  IF Len(nxt) = 8 THEN RefXxhLoop(nxt, d, k + 1) ELSE nxt

RefXxhRaw(d) == RefXxhLoop(XX_P5, d, 1)

RefXxhAvalanche(raw, len) ==
    LET a0 == XorW(raw, Word(len, 8))
        a1 == XorW(a0, ShrW(a0, 33))
        a2 == MulW(a1, XX_P2)
        a3 == XorW(a2, ShrW(a2, 29))
        a4 == MulW(a3, XX_P3)
    IN  XorW(a4, ShrW(a4, 32))

RefXxh64(d) == RefXxhAvalanche(RefXxhRaw(d), Len(d))

\* the accumulator the program holds when its scan loop ends: the
\* single-pass loop updates it only under do_xxh64
RawAccumulator ==
    IF benchmark = 1 \/ do_xxh64 = 1 THEN RefXxhRaw(data) ELSE XX_P5

(***************************************************************************)
(* C8.  The xxH64 digest of a finished run, single-pass or benchmark, is   *)
(* the reference recurrence over the file: seed P5, one mixing round per   *)
(* byte in order, then the length XOR and the avalanche, once.             *)
(***************************************************************************)
C8_Xxh64IsReferenceRecurrence ==
    (DoneSingle \/ DoneBench) /\ HasLine("xxH64") => ValueOf("xxH64") = RefXxh64(data)

C8_Witness ==
    DoneSingle /\ do_xxh64 = 1 /\ do_xxh128 = 0 /\ filesize = 2 /\ HasLine("xxH64")

(***************************************************************************)
(* C1.  As stated (high half from the accumulator before finalization):    *)
(***************************************************************************)
C1_HiFromRawAccumulator ==
    (DoneSingle \/ DoneBench) /\ HasLine("xxH128") =>
        /\ Hi64(ValueOf("xxH128")) = XorW(rotl64(MulW(RawAccumulator, XX_P1), 31), XX_P4)
        /\ Lo64(ValueOf("xxH128")) = RefXxhAvalanche(RawAccumulator, filesize)

(***************************************************************************)
(* C1, amended.  In both modes the high 64 bits of the xxH128 digest are   *)
(* rotate_left(fin * P1, 31) XOR P4 where fin is the accumulator AFTER the *)
(* length XOR and the avalanche, the same value the low 64 bits report.    *)
(***************************************************************************)
C1_HiFromFinalizedAccumulator ==
    (DoneSingle \/ DoneBench) /\ HasLine("xxH128") =>
        LET fin == RefXxhAvalanche(RawAccumulator, filesize) IN
        /\ Lo64(ValueOf("xxH128")) = fin
        /\ Hi64(ValueOf("xxH128")) = XorW(rotl64(MulW(fin, XX_P1), 31), XX_P4)

C1_Witness ==
    DoneSingle /\ do_xxh64 = 1 /\ do_xxh128 = 1 /\ filesize = 2 /\ HasLine("xxH128")

(***************************************************************************)
(* Bit-serial reference CRCs.  A register is the set of the positions of   *)
(* its one bits, so the reference shares no arithmetic with the program's  *)
(* table-driven code.                                                      *)
(***************************************************************************)
Pow2 == <<1, 2, 4, 8, 16, 32, 64, 128>>

BitsOfByte(b) == {p \in 0..7 : Bit(b, Pow2[p + 1]) = 1}
BitsOfWord(x) == {p \in 0..(8 * Len(x) - 1) : Bit(x[(p \div 8) + 1], Pow2[(p % 8) + 1]) = 1}

SymDiff(s, t) == (s \ t) \cup (t \ s)

RECURSIVE SumBits(_, _, _)
SumBits(s, base, j) ==
    IF j > 7 THEN 0
    ELSE (IF base + j \in s THEN Pow2[j + 1] ELSE 0) + SumBits(s, base, j + 1)

\* the register with one bits s, as the program stores a w-byte register
WordOfBits(s, w) == [k \in 1..w |-> SumBits(s, 8 * (k - 1), 0)]
Num16OfBits(s) == SumBits(s, 0, 0) + 256 * SumBits(s, 8, 0)

\* the generator polynomials without their leading term
RefPoly16 == {0, 5, 12}
RefPoly64 == {0, 1, 4, 7, 9, 10, 12, 13, 17, 19, 21, 22, 23, 24, 27, 29, 31, 32, 33,
              35, 37, 38, 39, 40, 45, 46, 47, 52, 53, 54, 55, 57, 62}

\* one MSB-first step of a w-bit register: shift left by one and XOR the
\* polynomial in if the bit shifted out, XOR the message bit, is one
MsbStep(s, w, poly, inbit) ==
    LET sh == {p + 1 : p \in s \ {w - 1}}
    IN  IF ((w - 1) \in s) # (inbit = 1) THEN SymDiff(sh, poly) ELSE sh

\* the bits j, j-1, ..., 0 of byte b fed in, most significant first
RECURSIVE MsbFeed(_, _, _, _, _)
MsbFeed(s, w, poly, b, j) ==
    IF j < 0 THEN s
    ELSE LET nxt == MsbStep(s, w, poly, Bit(b, Pow2[j + 1]))
         IN  IF Cardinality(nxt) >= 0 THEN MsbFeed(nxt, w, poly, b, j - 1) ELSE nxt

RECURSIVE MsbCrc(_, _, _, _, _)
MsbCrc(s, w, poly, d, k) ==
    IF k > Len(d) THEN s
    ELSE LET nxt == MsbFeed(s, w, poly, d[k], 7)
         IN  IF Cardinality(nxt) >= 0 THEN MsbCrc(nxt, w, poly, d, k + 1) ELSE nxt

RefCrc16(d) == Num16OfBits(MsbCrc(0..15, 16, RefPoly16, d, 1))
RefCrc64(d) == WordOfBits(MsbCrc({}, 64, RefPoly64, d, 1), 8)

\* entry n: n in the top byte, then eight shift / conditional-XOR steps
RefEntry(w, poly, n) == MsbFeed({p + w - 8 : p \in BitsOfByte(n)}, w, poly, 0, 7)

RefTable16 == [n \in 0..255 |-> Num16OfBits(RefEntry(16, RefPoly16, n))]
RefTable64 == [n \in 0..255 |-> WordOfBits(RefEntry(64, RefPoly64, n), 8)]

\* the bytes a running scan has consumed
Consumed == SubSeq(data, 1, i)

TablesBuilt == data # <<>> /\ pc # "init"

(***************************************************************************)
(* C10.  Once the tables are built, entry n of each is n placed in the top *)
(* byte followed by eight MSB-first shift/conditional-XOR steps; and the   *)
(* table-driven CRC-16 (init 0xFFFF) and CRC-64 (init 0) registers equal   *)
(* the bit-by-bit MSB-first CRC of the bytes consumed so far, at every     *)
(* point of every scan, and are printed with no finalize transform.        *)
(***************************************************************************)
C10_TableDrivenIsBitwise ==
    /\ TablesBuilt => crc16_table = RefTable16 /\ crc64_table = RefTable64
    /\ pc = "bench_crc16" \/ (pc = "scan" /\ do_crc16 = 1) => crc16 = RefCrc16(Consumed)
    /\ pc = "bench_crc64" \/ (pc = "scan" /\ do_crc64 = 1) => crc64 = RefCrc64(Consumed)
    /\ (DoneSingle \/ DoneBench) /\ HasLine("CRC-16") =>
           ValueOf("CRC-16") = Word(RefCrc16(data), 2)
    /\ (DoneSingle \/ DoneBench) /\ HasLine("CRC-64") =>
           ValueOf("CRC-64") = RefCrc64(data)

C10_Witness ==
    /\ DoneSingle /\ do_crc16 = 1 /\ do_crc64 = 1 /\ filesize > 8
    /\ HasLine("CRC-16") /\ HasLine("CRC-64")

(***************************************************************************)
(* Bit-serial reference for reflected 32-bit CRCs: register initialised to *)
(* 0xFFFFFFFF, each byte XORed into the low byte and followed by eight     *)
(* LSB-first shift / conditional-XOR steps, complemented at the end.       *)
(***************************************************************************)
IEEE_REFLECTED == <<32, 131, 184, 237>>     \* 0xEDB88320

LsbStep(s, poly) ==
    LET sh == {p - 1 : p \in s \ {0}}
    IN  IF 0 \in s THEN SymDiff(sh, poly) ELSE sh

RECURSIVE LsbRounds(_, _, _)
LsbRounds(s, poly, n) ==
    IF n = 0 THEN s
    ELSE LET nxt == LsbStep(s, poly)
         IN  IF Cardinality(nxt) >= 0 THEN LsbRounds(nxt, poly, n - 1) ELSE nxt

RECURSIVE LsbCrc(_, _, _, _)
LsbCrc(s, poly, d, k) ==
    IF k > Len(d) THEN s
    ELSE LET nxt == LsbRounds(SymDiff(s, BitsOfByte(d[k])), poly, 8)
         IN  IF Cardinality(nxt) >= 0 THEN LsbCrc(nxt, poly, d, k + 1) ELSE nxt

RefCrc32(poly, d) == WordOfBits((0..31) \ LsbCrc(0..31, BitsOfWord(poly), d, 1), 4)

\* what a software implementation of the checksum the CRC32 instruction
\* computes returns
SoftwareCrc32(d) == RefCrc32(CRC32C_REFLECTED, d)

(***************************************************************************)
(* C4.  The CRC-32 digest of a finished run is the CRC-32/IEEE checksum of *)
(* the file: init 0xFFFFFFFF, reflected polynomial 0xEDB88320, final XOR   *)
(* with 0xFFFFFFFF.                                                        *)
(***************************************************************************)
C4_Crc32IsIEEE ==
    (DoneSingle \/ DoneBench) /\ HasLine("CRC-32") =>
        ValueOf("CRC-32") = RefCrc32(IEEE_REFLECTED, data)

(***************************************************************************)
(* C5.  Whether or not the CPU has the CRC32 instruction, a run that asks  *)
(* for CRC-32 on a mapped, non-empty file ends normally and reports the    *)
(* value the software computation gives.                                   *)
(***************************************************************************)
C5_BackendNeverChangesDigest ==
    pc = "exit" /\ data # <<>> /\ (do_crc32 = 1 \/ benchmark = 1) =>
        /\ status = "success"
        /\ HasLine("CRC-32")
        /\ ValueOf("CRC-32") = SoftwareCrc32(data)

(***************************************************************************)
(* C2.  Whenever xxHash128 is requested, with or without xxHash64, the     *)
(* accumulator takes in every byte as the scan passes it, and the low 64   *)
(* bits of the xxH128 digest are the finalized xxHash64 of the file.       *)
(***************************************************************************)
C2_Xxh128MaintainsAccumulator ==
    /\ pc = "scan" /\ do_xxh128 = 1 => xxh64 = RefXxhRaw(Consumed)
    /\ DoneSingle /\ HasLine("xxH128") => Lo64(ValueOf("xxH128")) = RefXxh64(data)

(***************************************************************************)
(* The digests benchmark mode computes for a buffer, as functions of it.   *)
(***************************************************************************)
RECURSIVE BenchCrc16(_, _, _)
BenchCrc16(crc, buf, k) ==
    IF k > Len(buf) THEN crc
    ELSE LET nxt == Crc16Update(init_crc16, crc, buf[k])
         IN  IF nxt >= 0 THEN BenchCrc16(nxt, buf, k + 1) ELSE nxt

RECURSIVE BenchCrc64(_, _, _)
BenchCrc64(crc, buf, k) ==
    IF k > Len(buf) THEN crc
    ELSE LET nxt == Crc64Update(init_crc64, crc, buf[k])
         IN  IF Len(nxt) = 8 THEN BenchCrc64(nxt, buf, k + 1) ELSE nxt

RECURSIVE BenchXxh64(_, _, _)
BenchXxh64(acc, buf, k) ==
    IF k > Len(buf) THEN acc
    ELSE LET nxt == Xxh64Update(acc, buf[k])
         IN  IF Len(nxt) = 8 THEN BenchXxh64(nxt, buf, k + 1) ELSE nxt

BenchDigest(label, buf) ==
    LET fin == Xxh64Finalize(BenchXxh64(XX_P5, buf, 1), Len(buf)) IN
    CASE label = "CRC-16" -> Word(BenchCrc16(65535, buf, 1), 2)
      [] label = "CRC-32" -> XorW(crc32_simd(ALL_ONES32, buf), ALL_ONES32)
      [] label = "CRC-64" -> BenchCrc64(Word(0, 8), buf, 1)
      [] label = "xxH64" -> fin
      [] label = "xxH128" -> fin \o Xxh128Hi(fin)

\* benchmark mode prints exactly these digests
BenchDigestsAreBenchmarkOutput ==
    DoneBench => \A k \in 1..Len(out) : out[k][2] = BenchDigest(out[k][1], data)

(***************************************************************************)
(* C3.  Every digest a single-pass run prints is bit-for-bit the digest    *)
(* benchmark mode computes for the same algorithm on the same file.        *)
(***************************************************************************)
C3_SinglePassAgreesWithBenchmark ==
    DoneSingle => \A k \in 1..Len(out) : out[k][2] = BenchDigest(out[k][1], data)

(***************************************************************************)
(* C6.  A run on an empty file fails with the empty-file error in every    *)
(* mode and for every selection, having printed no digest; and every run   *)
(* that has ended printed either every requested digest or none.           *)
(***************************************************************************)
Requested ==
    IF benchmark = 1 THEN AllFive
    ELSE (IF do_crc16 = 1 THEN <<"CRC-16">> ELSE <<>>)
         \o (IF do_crc32 = 1 THEN <<"CRC-32">> ELSE <<>>)
         \o (IF do_crc64 = 1 THEN <<"CRC-64">> ELSE <<>>)
         \o (IF do_xxh64 = 1 THEN <<"xxH64">> ELSE <<>>)
         \o (IF do_xxh128 = 1 THEN <<"xxH128">> ELSE <<>>)

C6_EmptyFailsAndNoPartialResults ==
    /\ pc = "exit" /\ filesize = 0 =>
           status = "failure" /\ err = "Empty file" /\ out = <<>>
    /\ pc = "exit" =>
           \/ status = "success" /\ filesize > 0 /\ Labels = Requested
           \/ out = <<>>

(***************************************************************************)
(* C7.  As stated: benchmark mode scans the file five times, once per      *)
(* algorithm in the order CRC16, CRC32, CRC64, XXH64, XXH128, the last     *)
(* scan being xxHash128's own.                                             *)
(***************************************************************************)
OneScan == [k \in 1..filesize |-> k - 1]

C7_BenchmarkFiveScans ==
    DoneBench =>
        /\ Labels = AllFive
        /\ reads = OneScan \o OneScan \o OneScan \o OneScan \o OneScan

(***************************************************************************)
(* C7, amended.  Benchmark mode scans the file four times, once each for   *)
(* CRC16, CRC32, CRC64 and XXH64 in that order, every scan reading every   *)
(* byte once in ascending order; the xxH128 line comes last and is derived *)
(* from the state the XXH64 pass left, without reading the file again.     *)
(***************************************************************************)
C7_BenchmarkFourScans ==
    /\ pc = "bench_xxh128" => reads = OneScan \o OneScan \o OneScan \o OneScan
    /\ DoneBench =>
           /\ Labels = AllFive
           /\ reads = OneScan \o OneScan \o OneScan \o OneScan
           /\ Lo64(ValueOf("xxH128")) = ValueOf("xxH64")
           /\ Hi64(ValueOf("xxH128")) =
                  XorW(rotl64(MulW(ValueOf("xxH64"), XX_P1), 31), XX_P4)

C7_Witness == DoneBench /\ filesize = 2 /\ Len(out) = 5

(***************************************************************************)
(* C9.  If -a / --all was among the arguments, wherever it stood, all five *)
(* algorithms are selected once parsing is over and a finished run prints  *)
(* all five digests.                                                       *)
(***************************************************************************)
C9_AllAnywhereSelectsAllFive ==
    /\ seen_all /\ pc \in {"open", "init", "scan", "output"} =>
           /\ do_crc16 = 1 /\ do_crc32 = 1 /\ do_crc64 = 1
           /\ do_xxh64 = 1 /\ do_xxh128 = 1
    /\ seen_all /\ (DoneSingle \/ DoneBench) => Labels = AllFive

(***************************************************************************)
(* C11.  The single-pass scan reads every byte index of the file exactly   *)
(* once, in ascending order: while it runs it has read exactly the indices *)
(* below its position, and when it has ended it has read 0..S-1 and        *)
(* nothing else.  Throughout the scan, and still when it ends, the         *)
(* accumulator of every algorithm that was not requested holds its initial *)
(* value: 0xFFFF for CRC16, 0xFFFFFFFF for CRC32, 0 for CRC64, P5 for      *)
(* XXH64.                                                                  *)
(***************************************************************************)
ScanEnded == pc = "scan" /\ i = filesize

AscendingTo(n) == [k \in 1..n |-> k - 1]

C11_OneScanAndFrame ==
    /\ pc = "scan" =>
           /\ reads = AscendingTo(i)
           /\ do_crc16 = 0 => crc16 = 65535
           /\ do_crc32 = 0 => crc32 = <<255, 255, 255, 255>>
           /\ do_crc64 = 0 => crc64 = <<0, 0, 0, 0, 0, 0, 0, 0>>
           /\ do_xxh64 = 0 => xxh64 = <<197, 103, 86, 22, 47, 235, 212, 39>>
    /\ ScanEnded \/ pc = "output" \/ DoneSingle => reads = AscendingTo(filesize)

\* a scan of a two-byte file has ended with only CRC-64 requested
C11_Witness ==
    /\ ScanEnded /\ filesize = 2
    /\ do_crc64 = 1 /\ do_crc16 = 0 /\ do_crc32 = 0 /\ do_xxh64 = 0 /\ do_xxh128 = 0

(***************************************************************************)
(* C13.  In every reachable state the CRC-16 register lies in 0..2^16-1    *)
(* and the CRC-64 register in 0..2^64-1 (eight bytes of 0..255 each), and  *)
(* at every point of a CRC-16 or CRC-64 scan, single-pass or benchmark,    *)
(* the lookup index (crc >> 8) XOR byte resp. (crc >> 56) XOR byte is in   *)
(* 0..255 for every byte value, inside the 256-entry table.                *)
(***************************************************************************)
IsByte(v) == v \in 0..255

InCrc16Scan == pc = "bench_crc16" \/ (pc = "scan" /\ do_crc16 = 1)
InCrc64Scan == pc = "bench_crc64" \/ (pc = "scan" /\ do_crc64 = 1)

C13_RegistersAndIndexInRange ==
    /\ crc16 \in 0..65535
    /\ Len(crc64) = 8 /\ \A k \in 1..8 : IsByte(crc64[k])
    /\ InCrc16Scan =>
           /\ DOMAIN crc16_table = 0..255
           /\ IsByte(crc16 \div 256)
           /\ \A b \in 0..255 : XorByte(crc16 \div 256, b) \in DOMAIN crc16_table
    /\ InCrc64Scan =>
           /\ DOMAIN crc64_table = 0..255
           /\ \A b \in 0..255 : XorByte(crc64[8], b) \in DOMAIN crc64_table

\* in the middle of a scan, both registers have their top bit set, so that
\* the next shift drops a bit
C13_Witness ==
    /\ pc = "scan" /\ do_crc16 = 1 /\ do_crc64 = 1
    /\ 0 < i /\ i < filesize
    /\ crc16 >= 32768 /\ crc64[8] >= 128

(***************************************************************************)
(* Runs on a file of LongLen bytes.  Below 200 bytes progress_interval is  *)
(* 1 and every iteration notifies; from 200 bytes on it is at least 2, so  *)
(* some iterations notify and others do not.                               *)
(***************************************************************************)
LongFile == [k \in 1..LongLen |-> (k * 37) % 256]

ProgressBuffers == {<<>>, <<65, 255>>, LongFile}

ProgressArgLists ==
    { <<>>, <<"-d">>, <<"FILE">>, <<"-s", "FILE">>, <<"-b", "FILE">>,
      <<"-a", "FILE">>, <<"--x128", "FILE">>, <<"--crc16", "--crc64", "FILE">> }

InitProgress == Init /\ args \in ProgressArgLists

NextProgress ==
    \/ ParseArg
    \/ ParseDone
    \/ OpenFileFrom(ProgressBuffers)
    \/ InitTables
    \/ BenchCrc16Step
    \/ BenchCrc16Done
    \/ BenchCrc32
    \/ BenchCrc64Step
    \/ BenchCrc64Done
    \/ BenchXxh64Step
    \/ BenchXxh64Done
    \/ BenchXxh128
    \/ ScanByte
    \/ Finalize
    \/ Output

SpecProgress == InitProgress /\ [][NextProgress]_vars

(***************************************************************************)
(* The accumulators of a single-pass scan computed with no notification    *)
(* anywhere: each requested accumulator is its per-byte update folded over *)
(* the bytes, each unrequested one its initial value.                      *)
(***************************************************************************)
\* the update of line 580, 581, 582 or 583, chosen by the accumulator's name
SilentUpdate(reg, acc, b) ==
    CASE reg = "crc16" -> Crc16Update(init_crc16, acc, b)
      [] reg = "crc32" -> mm_crc32_u8(acc, b)
      [] reg = "crc64" -> Crc64Update(init_crc64, acc, b)
      [] reg = "xxh64" -> Xxh64Update(acc, b)

\* acc taken through that update for the bytes buf[lo..hi] in ascending
\* order, the range halved at each level so that the nesting stays
\* logarithmic
RECURSIVE SilentFold(_, _, _, _, _)
SilentFold(reg, acc, buf, lo, hi) ==
    IF lo > hi THEN acc
    ELSE IF lo = hi THEN SilentUpdate(reg, acc, buf[lo])
    ELSE LET mid == (lo + hi) \div 2
             left == SilentFold(reg, acc, buf, lo, mid)
         IN  IF left = left THEN SilentFold(reg, left, buf, mid + 1, hi) ELSE left

SilentCrc16(buf) ==
    IF do_crc16 = 1 THEN SilentFold("crc16", 65535, buf, 1, Len(buf)) ELSE 65535

SilentCrc32(buf) ==
    IF do_crc32 = 1 THEN SilentFold("crc32", ALL_ONES32, buf, 1, Len(buf)) ELSE ALL_ONES32

SilentCrc64(buf) ==
    IF do_crc64 = 1 THEN SilentFold("crc64", Word(0, 8), buf, 1, Len(buf)) ELSE Word(0, 8)

SilentXxh64(buf) ==
    IF do_xxh64 = 1 THEN SilentFold("xxh64", XX_P5, buf, 1, Len(buf)) ELSE XX_P5

\* the digest lines that computation ends in
SilentLines ==
    LET fin == IF do_xxh64 = 1 \/ do_xxh128 = 1
               THEN Xxh64Finalize(SilentXxh64(data), filesize) ELSE SilentXxh64(data)
    IN  (IF do_crc16 = 1 THEN <<Line("CRC-16", Word(SilentCrc16(data), 2))>> ELSE <<>>)
        \o (IF do_crc32 = 1
            THEN <<Line("CRC-32", XorW(SilentCrc32(data), ALL_ONES32))>> ELSE <<>>)
        \o (IF do_crc64 = 1 THEN <<Line("CRC-64", SilentCrc64(data))>> ELSE <<>>)
        \o (IF do_xxh64 = 1 THEN <<Line("xxH64", fin)>> ELSE <<>>)
        \o (IF do_xxh128 = 1 THEN <<Line("xxH128", fin \o Xxh128Hi(fin))>> ELSE <<>>)

\* the notifications issued so far: strictly increasing byte counts, none
\* beyond the scan position
NotificationsInOrder ==
    /\ \A k \in 1..Len(progress) : progress[k] \in 1..i
    /\ \A k \in 1..(Len(progress) - 1) : progress[k] < progress[k + 1]

\* one iteration of the scan as it is with no notification in it: the
\* position advances by one and each requested accumulator takes in data[i]
SilentStep ==
    /\ i' = i + 1
    /\ Len(reads') = i'
    /\ crc16' = IF do_crc16 = 1 THEN Crc16Update(crc16_table, crc16, data[i + 1]) ELSE crc16
    /\ crc32' = IF do_crc32 = 1 THEN mm_crc32_u8(crc32, data[i + 1]) ELSE crc32
    /\ crc64' = IF do_crc64 = 1 THEN Crc64Update(crc64_table, crc64, data[i + 1]) ELSE crc64
    /\ xxh64' = IF do_xxh64 = 1 THEN Xxh64Update(xxh64, data[i + 1]) ELSE xxh64

(***************************************************************************)
(* C12.  Progress notifications are observation only.  Every iteration of  *)
(* the single-pass scan, whether it notifies or not, moves the position    *)
(* and the accumulators exactly as the notification-free iteration does;   *)
(* a finished run prints the digests of the notification-free computation; *)
(* the notifications report increasing byte counts; and once the scan has  *)
(* ended the last notification issued reported current = total.            *)
(***************************************************************************)
C12_NotificationIsObservationOnly ==
    /\ [][pc = "scan" /\ pc' = "scan" =>
              /\ SilentStep
              /\ progress' \in {progress, Append(progress, i + 1)}]_vars
    /\ [](pc = "scan" => NotificationsInOrder)
    /\ [](DoneSingle => out = SilentLines)
    /\ [](ScanEnded \/ pc = "output" \/ DoneSingle =>
              /\ progress # <<>>
              /\ progress[Len(progress)] = filesize)

\* the scan of the long file has ended: its last iteration notified only
\* because it was the last, and other iterations did not notify
C12_Witness ==
    /\ ScanEnded /\ filesize = LongLen
    /\ ProgressInterval(filesize) > 1
    /\ (filesize - 1) % ProgressInterval(filesize) # 0
    /\ Len(progress) < filesize
    /\ do_crc16 = 1 /\ do_crc32 = 1 /\ do_crc64 = 1 /\ do_xxh64 = 1

=============================================================================
